---- MODULE Spec2Model ----
(***************************************************************************)
(* DeepSICTrainer (python_code/detectors/deepsic/deep_sic_trainer.py).     *)
(*                                                                         *)
(* Probabilities are kept on a grid of 2*HALF+1 levels: level p stands for *)
(* the probability p / (2*HALF), so HALF stands for 0.5.  A classifier is  *)
(* represented by one abstract parameter value.  Every handler of the      *)
(* trainer (_online_training, forward, forward_pilot) is one action.       *)
(***************************************************************************)
EXTENDS Integers, Sequences, FiniteSets, TLC

N_USER == 2
ITERATIONS == 3
EPOCHS == 250
HALF == 1

\* Sizes of the model.
PilotSize == 2
DataSize == 1
NParams == 2
MaxCalls == 3

Users == 0 .. (N_USER - 1)
Iters == 0 .. (ITERATIONS - 1)
Params == 0 .. (NParams - 1)
Bits == {0, 1}
\* the observations, quantised to two values
RxVals == {0, 1}

TxBlocks(n) == [1 .. n -> [Users -> Bits]]
RxBlocks(n) == [1 .. n -> RxVals]

VARIABLES
    detector,          \* self.detector[user][i]: the parameters of each classifier
    ht,                \* self.ht
    prev_ht_s0,        \* self.prev_ht_s0[user][i]
    prev_ht_s1,        \* self.prev_ht_s1[user][i]
    probs_vec,         \* self.probs_vec
    pilots_probs_vec,  \* self.pilots_probs_vec
    drift_mode,        \* conf.mechanism == TRAINING_TYPES.DRIFT
    rng,               \* the state of the random generator that initialises classifiers
    tx_pilot,          \* the labelled block the receiver works on: its bits
    rx_pilot,          \* ... and its observations
    call,              \* the last handler call: its arguments, what it did, its result
    pilot_obs,         \* what the last forward_pilot call did
    n_calls            \* number of handler calls so far

vars == <<detector, ht, prev_ht_s0, prev_ht_s1, probs_vec, pilots_probs_vec,
          drift_mode, rng, tx_pilot, rx_pilot, call, pilot_obs, n_calls>>

-----------------------------------------------------------------------------
\* Arithmetic helpers.

\* The function f itself (f @@ f = f), held as a table of its values.
Table(f) == f @@ f

Abs(x) == IF x < 0 THEN -x ELSE x

RECURSIVE SumSeq(_)
SumSeq(s) == IF Len(s) = 0 THEN 0 ELSE Head(s) + SumSeq(Tail(s))

RECURSIVE SumOver(_, _)
SumOver(f, S) ==
    IF S = {} THEN 0
    ELSE LET x == CHOOSE y \in S : TRUE IN f[x] + SumOver(f, S \ {x})

\* torch.sign
Sign(x) == IF x > 0 THEN 1 ELSE IF x < 0 THEN -1 ELSE 0

\* np.prod(np.shape(x)) / np.shape(x)[0] of a one-dimensional array
Size(x) == Len(x)

-----------------------------------------------------------------------------
\* prob_to_BPSK_symbol: torch.sign(p - HALF)
prob_to_BPSK_symbol(p) == Sign(p - HALF)

\* applied elementwise to a probability matrix
SymbolsOf(pv) ==
    Table([r \in DOMAIN pv |-> Table([u \in Users |-> prob_to_BPSK_symbol(pv[r][u])])])

\* HALF * torch.ones(n, N_ANT)
Priors(n) == Table([r \in 1 .. n |-> Table([u \in Users |-> HALF])])

\* tx.clone() read as probabilities: bit 0 is probability 0.0, bit 1 is 1.0
BitsAsProbs(tx) ==
    Table([r \in DOMAIN tx |-> Table([u \in Users |-> tx[r][u] * 2 * HALF])])

\* One row of torch.cat((rx, probs_vec[:, idx]), dim=1) for user k:
\* the observation and the probabilities of every other user.
AugRow(rx, pv, k, r) ==
    [rx |-> rx[r], others |-> Table([u \in Users \ {k} |-> pv[r][u]])]

\* self.softmax(model(input))[:, 1]: the class-1 probability the classifier
\* with parameters w gives to one augmented input row.
DetectorOut(w, row) ==
    (w + row.rx + SumOver(row.others, DOMAIN row.others)) % (2 * HALF + 1)

-----------------------------------------------------------------------------
\* Fault: calculate_posteriors updating probs_vec in place, so that a later
\* user reads the columns the earlier users of the same pass just wrote.
RECURSIVE PosteriorLoop_InPlace(_, _, _, _, _, _)
PosteriorLoop_InPlace(model, i, pv, rx, order, next_probs_vec) ==
    IF Len(order) = 0 THEN next_probs_vec
    ELSE LET user == Head(order)
             output == Table([r \in DOMAIN rx |->
                           DetectorOut(model[user][i - 1], AugRow(rx, pv, user, r))])
             filled == Table([r \in DOMAIN rx |->
                           [next_probs_vec[r] EXCEPT ![user] = output[r]]])
             written == Table([r \in DOMAIN rx |-> [pv[r] EXCEPT ![user] = output[r]]])
         IN  PosteriorLoop_InPlace(model, i, written, rx, Tail(order), filled)

-----------------------------------------------------------------------------
\* calculate_posteriors, its loop taking the users in the given order.
\* next_probs_vec is the tensor being filled in; every input row is read from
\* probs_vec, the argument.
RECURSIVE PosteriorLoop(_, _, _, _, _, _)
PosteriorLoop(model, i, pv, rx, order, next_probs_vec) ==
    IF Len(order) = 0 THEN next_probs_vec
    ELSE LET user == Head(order)
             output == Table([r \in DOMAIN rx |->
                           DetectorOut(model[user][i - 1], AugRow(rx, pv, user, r))])
             filled == Table([r \in DOMAIN rx |->
                           [next_probs_vec[r] EXCEPT ![user] = output[r]]])
         IN  PosteriorLoop(model, i, pv, rx, Tail(order), filled)

\* torch.zeros(probs_vec.shape)
Zeros(pv) == Table([r \in DOMAIN pv |-> Table([u \in Users |-> 0])])

\* range(self.n_user)
UserOrder == [k \in 1 .. N_USER |-> k - 1]

calculate_posteriors(model, i, pv, rx) ==
    PosteriorLoop(model, i, pv, rx, UserOrder, Zeros(pv))

\* prepare_data_for_training: per user k the labels tx[:, k] and the augmented
\* inputs built from rx and the other users' columns of probs_vec.
prepare_data_for_training(tx, rx, pv) ==
    [tx_all |-> Table([k \in Users |-> Table([r \in DOMAIN tx |-> tx[r][k]])]),
     rx_all |-> Table([k \in Users |->
                          Table([r \in DOMAIN rx |-> AugRow(rx, pv, k, r)])])]

\* Trainer.run_train_loop: one optimizer step on the loss between the soft
\* estimate and the labels; the parameters move unless the loss is zero.
run_train_loop(w, est, tx_k) ==
    LET err == Table([r \in DOMAIN est |-> Abs(est[r] - tx_k[r] * 2 * HALF)])
        loss == SumOver(err, DOMAIN err)
    IN  IF loss = 0 THEN w ELSE (w + 1) % NParams

\* One epoch of train_model: the forward pass and the optimizer step.
TrainEpoch(w, tx_k, rx_k) ==
    LET soft_estimation == Table([r \in DOMAIN rx_k |-> DetectorOut(w, rx_k[r])])
    IN  run_train_loop(w, soft_estimation, tx_k)

\* n applications in a row of the map F on the parameters
RECURSIVE Iterate(_, _)
Iterate(F, n) ==
    IF n = 0 THEN Table([w \in Params |-> w])
    ELSE LET H == Iterate(F, n \div 2)
             HH == Table([w \in Params |-> H[H[w]]])
         IN  IF n % 2 = 1 THEN Table([w \in Params |-> F[HH[w]]]) ELSE HH

\* train_model: EPOCHS epochs on the same data
train_model(w, tx_k, rx_k) ==
    Iterate(Table([v \in Params |-> TrainEpoch(v, tx_k, rx_k)]), EPOCHS)[w]

\* train_models: st.model is the grid, st.events the log of what was done.
RECURSIVE TrainUsers(_, _, _, _, _, _)
TrainUsers(st, i, tx_all, rx_all, train_users_list, user) ==
    IF user = N_USER THEN st
    ELSE IF ~train_users_list[user]
         THEN TrainUsers(st, i, tx_all, rx_all, train_users_list, user + 1)
         ELSE LET w == train_model(st.model[user][i], tx_all[user], rx_all[user])
                  st1 == [st EXCEPT
                            !.model = [st.model EXCEPT ![user][i] = w],
                            !.events = Append(st.events,
                                              [op |-> "train", i |-> i, user |-> user])]
              IN  TrainUsers(st1, i, tx_all, rx_all, train_users_list, user + 1)

train_models(st, i, tx_all, rx_all, train_users_list) ==
    TrainUsers(st, i, tx_all, rx_all, train_users_list, 0)

\* _initialize_detector: a fresh grid, its random initial parameters given by seed
InitialGrid(seed) ==
    Table([u \in Users |-> Table([i \in Iters |-> (seed + u + i) % NParams])])

\* Fault: no barrier between the iterations: the inputs of every iteration
\* are propagated through the grid as it is when the loop is entered, before
\* the classifiers of the iterations 1 .. i - 1 are trained.
RECURSIVE NoBarrierLoop(_, _, _, _, _, _)
NoBarrierLoop(st, untrained, i, tx, rx, train_users_list) ==
    IF i = ITERATIONS THEN st
    ELSE LET pv == calculate_posteriors(untrained, i, st.probs_vec, rx)
             data == prepare_data_for_training(tx, rx, pv)
             st1 == [st EXCEPT
                       !.probs_vec = pv,
                       !.events = Append(st.events,
                                         [op |-> "propagate", i |-> i, user |-> -1]),
                       !.rx_all = [st.rx_all EXCEPT ![i] = data.rx_all]]
             st2 == train_models(st1, i, data.tx_all, data.rx_all, train_users_list)
         IN  NoBarrierLoop(st2, untrained, i + 1, tx, rx, train_users_list)

TrainIterations_NoBarrier(st, i, tx, rx, train_users_list) ==
    NoBarrierLoop(st, st.model, i, tx, rx, train_users_list)

\* the loop "for i in range(1, ITERATIONS)" of _online_training
RECURSIVE TrainIterations(_, _, _, _, _)
TrainIterations(st, i, tx, rx, train_users_list) ==
    IF i = ITERATIONS THEN st
    ELSE LET pv == calculate_posteriors(st.model, i, st.probs_vec, rx)
             data == prepare_data_for_training(tx, rx, pv)
             st1 == [st EXCEPT
                       !.probs_vec = pv,
                       !.events = Append(st.events,
                                         [op |-> "propagate", i |-> i, user |-> -1]),
                       !.rx_all = [st.rx_all EXCEPT ![i] = data.rx_all]]
             st2 == train_models(st1, i, data.tx_all, data.rx_all, train_users_list)
         IN  TrainIterations(st2, i + 1, tx, rx, train_users_list)

\* _online_training from the grid `model` (already re-created in drift mode)
online_training(model, tx, rx, train_users_list) ==
    LET initial_probs == BitsAsProbs(tx)
        data == prepare_data_for_training(tx, rx, initial_probs)
        st0 == [model |-> model,
                probs_vec |-> Priors(Len(tx)),
                events |-> <<>>,
                rx_all |-> Table([i \in Iters |-> data.rx_all])]
        st1 == train_models(st0, 0, data.tx_all, data.rx_all, train_users_list)
    IN  TrainIterations(st1, 1, tx, rx, train_users_list)

-----------------------------------------------------------------------------
\* The loop "for i in range(ITERATIONS)" of forward: pass i + 1 feeds pass i + 2.
RECURSIVE ForwardIterations(_, _, _, _)
ForwardIterations(model, i, pv, rx) ==
    IF i = ITERATIONS THEN pv
    ELSE ForwardIterations(model, i + 1, calculate_posteriors(model, i + 1, pv, rx), rx)

\* pilots_probs_vec[idx, user] for idx = the rows among the first n whose
\* transmitted bit of that user is `bit`
RECURSIVE SamplesOf(_, _, _, _, _)
SamplesOf(pv, tx, user, bit, n) ==
    IF n = 0 THEN <<>>
    ELSE LET rest == SamplesOf(pv, tx, user, bit, n - 1)
         IN  IF tx[n][user] = bit THEN Append(rest, pv[n][user]) ELSE rest

\* The statistic of the current samples of one (user, iteration) against the
\* stored ones, class by class.
HotellingStatistic(s0, s1, old_s0, old_s1) ==
    Abs(SumSeq(s0) - SumSeq(old_s0)) + Abs(SumSeq(s1) - SumSeq(old_s1))

\* run_hotelling_test: records the statistic of (user, i) in ht_mat, computed
\* from the current and the stored samples of that (user, i).
run_hotelling_test(st, i, user) ==
    [st EXCEPT !.ht_mat[user][i] =
        <<HotellingStatistic(st.ht_s0_t_0[user][i], st.ht_s1_t_0[user][i],
                             st.prev_ht_s0[user][i], st.prev_ht_s1[user][i])>>]

\* The call run_hotelling_test(ht_mat, ht_s0_t_0, ht_s1_t_0, self.prev_ht_s0,
\* self.prev_ht_s1, i, tx, user) of forward_pilot.  st.tests logs the call with
\* the entries of (user, i) in the matrices it is handed.
CallHotelling(st, i, user) ==
    [run_hotelling_test(st, i, user) EXCEPT
        !.tests = Append(@, [user |-> user, i |-> i,
                             s0 |-> st.ht_s0_t_0[user][i],
                             s1 |-> st.ht_s1_t_0[user][i],
                             old_s0 |-> st.prev_ht_s0[user][i],
                             old_s1 |-> st.prev_ht_s1[user][i]])]

\* Fault: the body without the warm-up guard, the test run on every call.
PilotUserBody_NoWarmUp(st, i, user, tx) ==
    LET s0 == SamplesOf(st.pilots_probs_vec, tx, user, 0, Len(tx))
        s1 == SamplesOf(st.pilots_probs_vec, tx, user, 1, Len(tx))
        st1 == [st EXCEPT !.ht_s0_t_0[user][i] = s0, !.ht_s1_t_0[user][i] = s1]
        st2 == CallHotelling(st1, i, user)
    IN  [st2 EXCEPT !.prev_ht_s0[user][i] = s0, !.prev_ht_s1[user][i] = s1]

\* Fault: the body accumulating the history instead of overwriting it.
PilotUserBody_Accumulate(st, i, user, tx) ==
    LET s0 == SamplesOf(st.pilots_probs_vec, tx, user, 0, Len(tx))
        s1 == SamplesOf(st.pilots_probs_vec, tx, user, 1, Len(tx))
        st1 == [st EXCEPT !.ht_s0_t_0[user][i] = s0, !.ht_s1_t_0[user][i] = s1]
        st2 == IF Size(st1.prev_ht_s0[user][i]) # 0
               THEN CallHotelling(st1, i, user)
               ELSE st1
    IN  [st2 EXCEPT !.prev_ht_s0[user][i] = @ \o s0, !.prev_ht_s1[user][i] = @ \o s1]

\* The body of "for user in range(self.n_user)" of forward_pilot.  st holds
\* self.pilots_probs_vec, self.prev_ht_s0/s1 and the locals ht_s0_t_0,
\* ht_s1_t_0 and ht_mat.
PilotUserBody(st, i, user, tx) ==
    LET s0 == SamplesOf(st.pilots_probs_vec, tx, user, 0, Len(tx))
        s1 == SamplesOf(st.pilots_probs_vec, tx, user, 1, Len(tx))
        st1 == [st EXCEPT !.ht_s0_t_0[user][i] = s0, !.ht_s1_t_0[user][i] = s1]
        st2 == IF Size(st1.prev_ht_s0[user][i]) # 0
               THEN CallHotelling(st1, i, user)
               ELSE st1
    IN  [st2 EXCEPT !.prev_ht_s0[user][i] = s0, !.prev_ht_s1[user][i] = s1]

RECURSIVE PilotUsers(_, _, _, _)
PilotUsers(st, i, user, tx) ==
    IF user = N_USER THEN st
    ELSE PilotUsers(PilotUserBody(st, i, user, tx), i, user + 1, tx)

\* The loop "for i in range(ITERATIONS)" of forward_pilot.
RECURSIVE PilotIterations(_, _, _, _, _)
PilotIterations(st, model, i, rx, tx) ==
    IF i = ITERATIONS THEN st
    ELSE LET pv == calculate_posteriors(model, i + 1, st.pilots_probs_vec, rx)
             st1 == [st EXCEPT !.pilots_probs_vec = pv]
         IN  PilotIterations(PilotUsers(st1, i, 0, tx), model, i + 1, rx, tx)

\* [[[] for _ in range(ITERATIONS)] for _ in range(self.n_user)]
EmptyMat == Table([u \in Users |-> Table([i \in Iters |-> <<>>])])

-----------------------------------------------------------------------------
\* __init__: ht = [0] * N_USER (a scalar is held as a one-element array),
\* empty history; the grid is created by _initialize_detector.
Init ==
    /\ rng = 0
    /\ detector = InitialGrid(rng)
    /\ ht = [u \in Users |-> <<0>>]
    /\ prev_ht_s0 = EmptyMat
    /\ prev_ht_s1 = EmptyMat
    /\ probs_vec = Priors(DataSize)
    /\ pilots_probs_vec = Priors(PilotSize)
    /\ drift_mode \in BOOLEAN
    /\ tx_pilot \in TxBlocks(PilotSize)
    /\ rx_pilot \in RxBlocks(PilotSize)
    /\ call = [op |-> "init", after |-> "init"]
    /\ pilot_obs = [tests |-> <<>>, ht_s0_t_0 |-> EmptyMat, ht_s1_t_0 |-> EmptyMat,
                    round |-> 0]
    /\ n_calls = 0

\* Fault: a training episode that also clears the drift history.
OnlineTraining_ClearsHistory(tx, rx, train_users_list) ==
    /\ n_calls < MaxCalls
    /\ LET fresh == (rng + 1) % NParams
           model == IF drift_mode THEN InitialGrid(fresh) ELSE detector
           st == online_training(model, tx, rx, train_users_list)
       IN  /\ detector' = st.model
           /\ rng' = IF drift_mode THEN fresh ELSE rng
           /\ call' = [op |-> "train", after |-> call.op, tx |-> tx, rx |-> rx,
                       train_users_list |-> train_users_list,
                       events |-> st.events, rx_all |-> st.rx_all]
    /\ n_calls' = n_calls + 1
    /\ prev_ht_s0' = EmptyMat
    /\ prev_ht_s1' = EmptyMat
    /\ UNCHANGED <<ht, probs_vec, pilots_probs_vec,
                   drift_mode, tx_pilot, rx_pilot, pilot_obs>>

\* _online_training(tx, rx) with self.train_users_list as given
OnlineTraining(tx, rx, train_users_list) ==
    /\ n_calls < MaxCalls
    /\ LET fresh == (rng + 1) % NParams
           model == IF drift_mode THEN InitialGrid(fresh) ELSE detector
           st == online_training(model, tx, rx, train_users_list)
       IN  /\ detector' = st.model
           /\ rng' = IF drift_mode THEN fresh ELSE rng
           /\ call' = [op |-> "train", after |-> call.op, tx |-> tx, rx |-> rx,
                       train_users_list |-> train_users_list,
                       events |-> st.events, rx_all |-> st.rx_all]
    /\ n_calls' = n_calls + 1
    /\ UNCHANGED <<ht, prev_ht_s0, prev_ht_s1, probs_vec, pilots_probs_vec,
                   drift_mode, tx_pilot, rx_pilot, pilot_obs>>

\* Fault: forward without init_priors, the pass started from the vector the
\* previous call left.
Forward_NoInitPriors(rx) ==
    /\ n_calls < MaxCalls
    /\ LET pv == ForwardIterations(detector, 0, probs_vec, rx)
       IN  /\ probs_vec' = pv
           /\ call' = [op |-> "forward", after |-> call.op, rx |-> rx,
                       symbols |-> SymbolsOf(pv)]
    /\ n_calls' = n_calls + 1
    /\ UNCHANGED <<detector, ht, prev_ht_s0, prev_ht_s1, pilots_probs_vec, drift_mode,
                   rng, tx_pilot, rx_pilot, pilot_obs>>

\* forward(rx)
Forward(rx) ==
    /\ n_calls < MaxCalls
    /\ LET pv == ForwardIterations(detector, 0, Priors(DataSize), rx)
       IN  /\ probs_vec' = pv
           /\ pilots_probs_vec' = Priors(PilotSize)
           /\ call' = [op |-> "forward", after |-> call.op, rx |-> rx,
                       symbols |-> SymbolsOf(pv)]
    /\ n_calls' = n_calls + 1
    /\ UNCHANGED <<detector, ht, prev_ht_s0, prev_ht_s1, drift_mode, rng,
                   tx_pilot, rx_pilot, pilot_obs>>

\* forward_pilot(rx, tx)
ForwardPilot(rx, tx) ==
    /\ n_calls < MaxCalls
    /\ LET st0 == [pilots_probs_vec |-> Priors(PilotSize),
                   prev_ht_s0 |-> prev_ht_s0, prev_ht_s1 |-> prev_ht_s1,
                   ht_s0_t_0 |-> EmptyMat, ht_s1_t_0 |-> EmptyMat,
                   ht_mat |-> EmptyMat, tests |-> <<>>]
           st == PilotIterations(st0, detector, 0, rx, tx)
       IN  /\ probs_vec' = Priors(DataSize)
           /\ pilots_probs_vec' = st.pilots_probs_vec
           /\ prev_ht_s0' = st.prev_ht_s0
           /\ prev_ht_s1' = st.prev_ht_s1
           /\ ht' = IF Size(st.ht_mat[N_USER - 1][ITERATIONS - 1]) # 0
                    THEN [u \in Users |-> st.ht_mat[u][ITERATIONS - 1]]
                    ELSE ht
           /\ call' = [op |-> "forward_pilot", after |-> call.op, rx |-> rx, tx |-> tx,
                       symbols |-> SymbolsOf(st.pilots_probs_vec)]
           /\ pilot_obs' = [tests |-> st.tests,
                            ht_s0_t_0 |-> st.ht_s0_t_0, ht_s1_t_0 |-> st.ht_s1_t_0,
                            round |-> IF pilot_obs.round < 2 THEN pilot_obs.round + 1
                                      ELSE 2]
    /\ n_calls' = n_calls + 1
    /\ UNCHANGED <<detector, drift_mode, rng, tx_pilot, rx_pilot>>

Next ==
    \/ \E train_users_list \in [Users -> BOOLEAN] :
            OnlineTraining(tx_pilot, rx_pilot, train_users_list)
    \/ \E rx \in RxBlocks(DataSize) : Forward(rx)
    \/ ForwardPilot(rx_pilot, tx_pilot)

Spec == Init /\ [][Next]_vars

-----------------------------------------------------------------------------
\* What the properties below speak about.

InitialHt == [u \in Users |-> <<0>>]

\* the step is a call of the named handler
Called(op) == n_calls' # n_calls /\ call'.op = op

\* the run_hotelling_test calls of the last forward_pilot call
Tests == {pilot_obs.tests[k] : k \in 1 .. Len(pilot_obs.tests)}

\* the final-iteration test of the last forward_pilot call ran for user u
TestedLast(u) == \E t \in Tests : t.user = u /\ t.i = ITERATIONS - 1

\* The posterior of every user computed directly from its definition: column
\* u from rx, the classifier (u, i - 1) and the other users' columns of pv.
RefPosterior(model, i, pv, rx) ==
    Table([r \in DOMAIN rx |->
       Table([u \in Users |->
          DetectorOut(model[u][i - 1],
                      [rx |-> rx[r], others |-> [v \in Users \ {u} |-> pv[r][v]]])])])

\* passes j .. ITERATIONS in a row, each fed with the one before
RECURSIVE RefPassFrom(_, _, _, _)
RefPassFrom(model, rx, pv, j) ==
    IF j > ITERATIONS THEN pv
    ELSE RefPassFrom(model, rx, RefPosterior(model, j, pv, rx), j + 1)

\* the augmented inputs of every user built from rx and pv
RefInputs(rx, pv) ==
    [k \in Users |->
       [r \in DOMAIN rx |->
          [rx |-> rx[r], others |-> [v \in Users \ {k} |-> pv[r][v]]]]]

\* the orders in which a loop can take the users
Orders == {o \in [1 .. N_USER -> Users] : \A a, b \in 1 .. N_USER : a # b => o[a] # o[b]}

-----------------------------------------------------------------------------
\* C1.  Warm-up: the first forward_pilot call on a trainer (whatever was
\* trained or inferred before it) calls run_hotelling_test for no (user,
\* iteration), and leaves ht at its initial value, until the next
\* forward_pilot call.
C1_WarmUp ==
    pilot_obs.round = 1 => (pilot_obs.tests = <<>> /\ ht = InitialHt)

\* The first forward_pilot call has just returned and has stored its samples.
C1_Witness ==
    /\ pilot_obs.round = 1
    /\ call.op = "forward_pilot"
    /\ \A u \in Users, i \in Iters :
          Size(prev_ht_s0[u][i]) + Size(prev_ht_s1[u][i]) = PilotSize

-----------------------------------------------------------------------------
\* C3.  As claimed: a forward_pilot call changes ht only when its
\* final-iteration test ran (and so produced a result) for every user, and
\* afterwards every entry of ht holds a result, never an empty placeholder.
C3_Claim ==
    [][Called("forward_pilot") =>
          /\ (ht' # ht => (\A u \in Users : TestedLast(u))')
          /\ \A u \in Users : Size(ht'[u]) # 0]_vars

-----------------------------------------------------------------------------
\* C5.  As claimed: every run_hotelling_test call is handed non-empty stored
\* samples of both classes.
C5_Claim ==
    \A t \in Tests : Size(t.old_s0) # 0 /\ Size(t.old_s1) # 0

-----------------------------------------------------------------------------
\* C6.  As claimed: the symbol detected from a final probability p is +1 when
\* p >= 0.5 and -1 when p < 0.5, for forward and forward_pilot alike.
HardDecision(p) == IF p >= HALF THEN 1 ELSE -1

C6_Claim ==
    /\ call.op = "forward" =>
          \A r \in DOMAIN probs_vec, u \in Users :
             call.symbols[r][u] = HardDecision(probs_vec[r][u])
    /\ call.op = "forward_pilot" =>
          \A r \in DOMAIN pilots_probs_vec, u \in Users :
             call.symbols[r][u] = HardDecision(pilots_probs_vec[r][u])

-----------------------------------------------------------------------------
\* C2.  History depth is one round: every run_hotelling_test call of a
\* forward_pilot call is handed, as stored samples of its (user, iteration),
\* the samples the previous forward_pilot call produced there; and when the
\* call returns, the history of every (user, iteration), tested or not, holds
\* exactly the samples this call produced (at the final iteration: the final
\* probabilities of the rows of each class).
C2_HistoryDepthOne ==
    [][Called("forward_pilot") =>
          /\ \A k \in 1 .. Len(pilot_obs'.tests) :
                LET t == pilot_obs'.tests[k]
                IN  /\ t.old_s0 = pilot_obs.ht_s0_t_0[t.user][t.i]
                    /\ t.old_s1 = pilot_obs.ht_s1_t_0[t.user][t.i]
          /\ prev_ht_s0' = pilot_obs'.ht_s0_t_0
          /\ prev_ht_s1' = pilot_obs'.ht_s1_t_0
          /\ \A u \in Users :
                /\ prev_ht_s0'[u][ITERATIONS - 1]
                      = SamplesOf(pilots_probs_vec', call'.tx, u, 0, PilotSize)
                /\ prev_ht_s1'[u][ITERATIONS - 1]
                      = SamplesOf(pilots_probs_vec', call'.tx, u, 1, PilotSize)]_vars

\* A second or later forward_pilot call that tested one (user, iteration)
\* against samples differing from its own, and skipped the test of another.
C2_Witness ==
    /\ call.op = "forward_pilot"
    /\ pilot_obs.round = 2
    /\ \E t \in Tests : t.old_s0 # t.s0
    /\ \E u \in Users, i \in Iters :
          /\ ~ \E t \in Tests : t.user = u /\ t.i = i
          /\ Size(prev_ht_s1[u][i]) # 0

-----------------------------------------------------------------------------
\* C4.  As claimed: a training episode leaves every classifier of a user
\* whose training flag is disabled as it was, in either operating mode.
C4_Claim ==
    [][Called("train") =>
          \A u \in Users : ~call'.train_users_list[u] => detector'[u] = detector[u]]_vars

-----------------------------------------------------------------------------
\* C7.  calculate_posteriors is inference only and reads a snapshot: forward
\* and forward_pilot change no classifier, and on the grid and the block of a
\* forward_pilot call, for the priors and for the vector the call leaves as
\* input, the result is, in whatever order the users are taken, the one whose
\* column u comes from rx, classifier (u, i - 1) and the other users' columns
\* of the input.
OrderFree(model, pv, rx) ==
    \A i \in 1 .. ITERATIONS :
       LET ref == RefPosterior(model, i, pv, rx)
       IN  \A o \in Orders : PosteriorLoop(model, i, pv, rx, o, Zeros(pv)) = ref

C7_PropagateReadOnly ==
    [][/\ (Called("forward") \/ Called("forward_pilot")) => detector' = detector
       /\ Called("forward_pilot") =>
             LET model == detector'
                 rx == call'.rx
                 pv == pilots_probs_vec'
             IN  /\ OrderFree(model, Priors(PilotSize), rx)
                 /\ OrderFree(model, pv, rx)]_vars

\* A pass has run whose output differs between the users and from the priors.
C7_Witness ==
    /\ call.op = "forward_pilot"
    /\ \E r \in DOMAIN pilots_probs_vec :
          /\ pilots_probs_vec[r][0] # pilots_probs_vec[r][1]
          /\ pilots_probs_vec[r][0] # HALF

-----------------------------------------------------------------------------
\* C8.  The barrier of _online_training: iteration 0 is trained on inputs
\* built from the transmitted bits; the inputs of iteration i >= 1 are built
\* from the propagation through the iteration-(i-1) classifiers as they are
\* after their training; and nothing of iteration i (its propagation, the
\* training of any of its classifiers) happens before every enabled user's
\* iteration-(i-1) classifier has been trained.
RECURSIVE RefTrainProbs(_, _)
RefTrainProbs(rx, i) ==
    IF i = 0 THEN Priors(Len(rx))
    ELSE RefPosterior(detector, i, RefTrainProbs(rx, i - 1), rx)

C8_Barrier ==
    call.op = "train" =>
       /\ call.rx_all[0] = RefInputs(call.rx, BitsAsProbs(call.tx))
       /\ \A i \in 1 .. (ITERATIONS - 1) :
             call.rx_all[i] = RefInputs(call.rx, RefTrainProbs(call.rx, i))
       /\ \A b \in 1 .. Len(call.events) :
             call.events[b].i >= 1 =>
                \A u \in Users :
                   call.train_users_list[u] =>
                      \E a \in 1 .. (b - 1) :
                         call.events[a] =
                            [op |-> "train", i |-> call.events[b].i - 1, user |-> u]

\* An episode that trained both users and changed an iteration-0 and an
\* iteration-1 classifier's input-relevant parameters.
C8_Witness ==
    /\ call.op = "train"
    /\ \A u \in Users : call.train_users_list[u]
    /\ Len(call.events) = N_USER * ITERATIONS + ITERATIONS - 1
    /\ call.rx_all[1] # call.rx_all[0]
    /\ call.rx_all[2] # call.rx_all[1]

-----------------------------------------------------------------------------
\* C9.  Every inference pass starts from the 0.5 priors and chains
\* ITERATIONS propagations, the j-th through the iteration-(j-1) classifiers:
\* what forward or forward_pilot leaves in its probability vector is fixed by
\* the grid and rx alone, whatever calls came before.
C9_PassFromPriors ==
    /\ call.op = "forward" =>
          probs_vec = RefPassFrom(detector, call.rx, Priors(DataSize), 1)
    /\ call.op = "forward_pilot" =>
          pilots_probs_vec = RefPassFrom(detector, call.rx, Priors(PilotSize), 1)

\* A forward call right after another inference call, its result not the priors.
C9_Witness ==
    /\ call.op = "forward"
    /\ call.after \in {"forward", "forward_pilot"}
    /\ probs_vec # Priors(DataSize)

-----------------------------------------------------------------------------
\* C10.  Only forward_pilot touches the drift state: _online_training (with
\* or without the reset of the grid) and forward leave prev_ht_s0, prev_ht_s1
\* and ht as they are; so a forward_pilot call that follows a training runs
\* the test of every (user, iteration) with stored class-0 samples, against
\* the history as it stood when the training ended.
C10_OnlyPilotTouchesDrift ==
    [][/\ (Called("train") \/ Called("forward")) =>
             (prev_ht_s0' = prev_ht_s0 /\ prev_ht_s1' = prev_ht_s1 /\ ht' = ht)
       /\ (Called("forward_pilot") /\ call.op = "train") =>
             \A u \in Users, i \in Iters :
                Size(prev_ht_s0[u][i]) # 0 =>
                   \E k \in 1 .. Len(pilot_obs'.tests) :
                      LET t == pilot_obs'.tests[k]
                      IN  /\ t.user = u /\ t.i = i
                          /\ t.old_s0 = prev_ht_s0[u][i]
                          /\ t.old_s1 = prev_ht_s1[u][i]]_vars

\* A forward_pilot call right after a training that reset the grid, with
\* tests run against samples stored before it.
C10_Witness ==
    /\ call.op = "forward_pilot"
    /\ call.after = "train"
    /\ drift_mode
    /\ \E t \in Tests : t.old_s0 # t.s0

====
